---- MODULE Spec2Model ----
(***************************************************************************)
(* Model of the three functions of the repository:                         *)
(*   two_sum          (src/Rust/1_Two_Sum.rs)                              *)
(*   is_valid         (src/Rust/2_valid_parentheses.rs)                    *)
(*   merge_two_lists  (src/Rust/3_merge_two_sorted_lists.rs)               *)
(* Each function is a state machine of its own (SpecTwoSum, SpecValid,     *)
(* SpecMerge); the variables of the other two stay at their idle values.   *)
(***************************************************************************)
EXTENDS Integers, Sequences, FiniteSets, TLC

VARIABLES
    \* two_sum
    nums, target, overflow_checks, i, num_indices, ts_pc, ts_result,
    \* is_valid
    s, pos, stack, iv_pc, iv_result,
    \* merge_two_lists
    listA, listB, val, next, l1, l2, frames, ret, m_pc

ts_vars == <<nums, target, overflow_checks, i, num_indices, ts_pc, ts_result>>
iv_vars == <<s, pos, stack, iv_pc, iv_result>>
m_vars == <<listA, listB, val, next, l1, l2, frames, ret, m_pc>>
vars == <<ts_vars, iv_vars, m_vars>>

\* ------------------------------------------------------------------------
\* Bounds of the model
\* ------------------------------------------------------------------------
MaxLen == 3
MaxStrLen == 4
MaxChain == 3
MaxVal == 3

\* Sequences over S of length at most n
SeqUpTo(S, n) == UNION {[1..k -> S] : k \in 0..n}

\* ------------------------------------------------------------------------
\* Idle values of the variables of a function that is not running
\* ------------------------------------------------------------------------
TwoSumIdle ==
    /\ nums = <<>> /\ target = 0 /\ overflow_checks = FALSE /\ i = 0
    /\ num_indices = <<>> /\ ts_pc = "idle" /\ ts_result = <<>>

ValidIdle ==
    /\ s = <<>> /\ pos = 0 /\ stack = <<>> /\ iv_pc = "idle" /\ iv_result = FALSE

MergeIdle ==
    /\ listA = <<>> /\ listB = <<>> /\ val = <<>> /\ next = <<>>
    /\ l1 = 0 /\ l2 = 0 /\ frames = <<>> /\ ret = 0 /\ m_pc = "idle"

\* ========================================================================
\* two_sum
\* ========================================================================
MaxI32 == 2147483647
MinI32 == (-MaxI32) - 1

\* The values nums is drawn from and the targets: ordinary small values and
\* the two ends of the i32 range.
Vals == {MinI32, -1, 0, 1, 3, 5, MaxI32}
Targets == {MinI32, 0, 6, MaxI32}

\* target - num leaves the i32 range
SubOverflows(t, n) ==
    \/ (n < 0 /\ t > MaxI32 + n)
    \/ (n > 0 /\ t < MinI32 + n)

\* target - num in two's complement (t - n -/+ 2^32 when it leaves the range),
\* computed without leaving the range on the way
WrappingSub(t, n) ==
    IF n < 0 /\ t > MaxI32 + n THEN ((t - MaxI32) + (MinI32 - n)) - 1
    ELSE IF n > 0 /\ t < MinI32 + n THEN ((t - MinI32) + (MaxI32 - n)) + 1
    ELSE t - n

\* HashMap::insert of or_insert flavour: an existing key keeps its value
MapInsertKeepFirst(m, k, v) ==
    [x \in DOMAIN m \cup {k} |-> IF x \in DOMAIN m THEN m[x] ELSE v]

\* HashMap::insert: an existing key is overwritten
MapInsert(m, k, v) ==
    [x \in DOMAIN m \cup {k} |-> IF x = k THEN v ELSE m[x]]

\* for (i, &num) in nums.iter().enumerate(): the element at 0-based index k
NumAt(k) == nums[k + 1]

TwoSumInit ==
    /\ nums \in SeqUpTo(Vals, MaxLen)
    /\ target \in Targets
    /\ overflow_checks \in BOOLEAN
    /\ i = 0
    /\ num_indices = <<>>
    /\ ts_pc = "loop"
    /\ ts_result = <<>>
    /\ ValidIdle /\ MergeIdle

\* let complement = target - num; in a build with overflow checks
TwoSumPanic ==
    /\ ts_pc = "loop" /\ i < Len(nums)
    /\ overflow_checks /\ SubOverflows(target, NumAt(i))
    /\ ts_pc' = "panic"
    /\ UNCHANGED <<nums, target, overflow_checks, i, num_indices, ts_result>>
    /\ UNCHANGED <<iv_vars, m_vars>>

\* if let Some(&index) = num_indices.get(&complement) { return vec![index, i] }
TwoSumFound ==
    /\ ts_pc = "loop" /\ i < Len(nums)
    /\ ~(overflow_checks /\ SubOverflows(target, NumAt(i)))
    /\ LET complement == WrappingSub(target, NumAt(i)) IN
        /\ complement \in DOMAIN num_indices
        /\ ts_result' = <<num_indices[complement], i>>
    /\ ts_pc' = "return"
    /\ UNCHANGED <<nums, target, overflow_checks, i, num_indices>>
    /\ UNCHANGED <<iv_vars, m_vars>>

\* num_indices.insert(num, i); and on to the next element
TwoSumInsert ==
    /\ ts_pc = "loop" /\ i < Len(nums)
    /\ ~(overflow_checks /\ SubOverflows(target, NumAt(i)))
    /\ LET complement == WrappingSub(target, NumAt(i)) IN
        complement \notin DOMAIN num_indices
    /\ num_indices' = MapInsert(num_indices, NumAt(i), i)
    /\ i' = i + 1
    /\ UNCHANGED <<nums, target, overflow_checks, ts_pc, ts_result>>
    /\ UNCHANGED <<iv_vars, m_vars>>

\* vec![] after the loop
TwoSumNotFound ==
    /\ ts_pc = "loop" /\ i = Len(nums)
    /\ ts_result' = <<>>
    /\ ts_pc' = "return"
    /\ UNCHANGED <<nums, target, overflow_checks, i, num_indices>>
    /\ UNCHANGED <<iv_vars, m_vars>>

TwoSumNext == TwoSumPanic \/ TwoSumFound \/ TwoSumInsert \/ TwoSumNotFound

SpecTwoSum == TwoSumInit /\ [][TwoSumNext]_vars

\* a + b = t over the integers, computed without leaving the i32 range
SumsTo(a, b, t) ==
    IF a >= 0 /\ b >= 0 THEN a <= MaxI32 - b /\ a + b = t
    ELSE IF a < 0 /\ b < 0 THEN a >= MinI32 - b /\ a + b = t
    ELSE a + b = t

\* positions (0-based) p < q of nums whose values sum to target
IsPair(p, q) ==
    /\ p \in 0..(Len(nums) - 1) /\ q \in 0..(Len(nums) - 1) /\ p < q
    /\ SumsTo(NumAt(p), NumAt(q), target)

HasPartner(q) == \E p \in 0..(q - 1) : IsPair(p, q)

\* C1: a non-empty result of two_sum is two distinct indices within
\* 0..len(nums)-1 whose values sum to target.
C1_PairIsValid ==
    (ts_pc = "return" /\ ts_result # <<>>) =>
        /\ Len(ts_result) = 2
        /\ ts_result[1] # ts_result[2]
        /\ ts_result[1] \in 0..(Len(nums) - 1)
        /\ ts_result[2] \in 0..(Len(nums) - 1)
        /\ SumsTo(NumAt(ts_result[1]), NumAt(ts_result[2]), target)

\* C2: two_sum returns, and the result is empty iff no positions p < q sum to
\* target; a non-empty result [p, q] has p < q and q the smallest position
\* with an earlier partner.
C2_FirstMatch ==
    (ts_pc # "loop") =>
        /\ ts_pc = "return"
        /\ (ts_result = <<>>) <=> ~(\E q \in 0..(Len(nums) - 1) : HasPartner(q))
        /\ (ts_result # <<>>) =>
            /\ ts_result[1] < ts_result[2]
            /\ HasPartner(ts_result[2])
            /\ \A q \in 0..(ts_result[2] - 1) : ~HasPartner(q)

\* C8: two_sum never fails: target - num completes for all i32 values.
C8_Total == ts_pc # "panic"

Positions(v, j) == {k \in 0..(j - 1) : NumAt(k) = v}
Earliest(v, j) == CHOOSE k \in Positions(v, j) : \A m \in Positions(v, j) : k <= m
Latest(v, j) == CHOOSE k \in Positions(v, j) : \A m \in Positions(v, j) : k >= m
SeenValues(j) == {NumAt(k) : k \in 0..(j - 1)}

\* C3 (as stated): the lookup table maps each value seen to its earliest
\* index, and the first index of a returned pair is the earliest occurrence
\* of its value.
C3_EarliestIndex ==
    /\ (ts_pc = "loop") =>
        /\ DOMAIN num_indices = SeenValues(i)
        /\ \A v \in DOMAIN num_indices : num_indices[v] = Earliest(v, i)
    /\ (ts_pc = "return" /\ ts_result # <<>>) =>
        ts_result[1] = Earliest(NumAt(ts_result[1]), ts_result[2])

\* C3 (amended): the lookup table maps each value seen to its latest index;
\* the first index of a returned pair [p, q] is the latest position before q
\* that holds the looked-up complement.
C3_LatestIndex ==
    /\ (ts_pc \in {"loop", "return"}) =>
        /\ DOMAIN num_indices = SeenValues(i)
        /\ \A v \in DOMAIN num_indices : num_indices[v] = Latest(v, i)
    /\ (ts_pc = "return" /\ ts_result # <<>>) =>
        /\ ts_result[2] = i
        /\ NumAt(ts_result[1]) = WrappingSub(target, NumAt(i))
        /\ ts_result[1] = Latest(WrappingSub(target, NumAt(i)), i)

\* nums = [1,1,5], target = 6 returns [1,2]
C3_Witness ==
    /\ ts_pc = "return" /\ nums = <<1, 1, 5>> /\ target = 6
    /\ ts_result = <<1, 2>>

\* ========================================================================
\* is_valid
\* ========================================================================
Openers == {"(", "{", "["}
Closers == {")", "}", "]"}
Chars == Openers \cup Closers \cup {"a"}

\* A closing arm that accepts any opener on top of the stack
ExpectedAny(c) == "("

\* The opener each closing arm compares the popped element with
Expected(c) ==
    CASE c = ")" -> "("
      [] c = "}" -> "{"
      [] c = "]" -> "["

\* A pop that leaves the element on the stack
PopKeep(st) == st

\* stack.pop(): the stack without its last element (unchanged when empty)
Pop(st) == IF st = <<>> THEN st ELSE SubSeq(st, 1, Len(st) - 1)

\* stack.pop() != Some(expected)
PopMismatch(st, c) == IF st = <<>> THEN TRUE ELSE st[Len(st)] # Expected(c)

\* stack.is_empty()
FinalResult(st) == st = <<>>

\* for c in s.chars(): the character at 0-based position k
CharAt(k) == s[k + 1]

ValidInit ==
    /\ s \in SeqUpTo(Chars, MaxStrLen)
    /\ pos = 0
    /\ stack = <<>>
    /\ iv_pc = "loop"
    /\ iv_result = FALSE
    /\ TwoSumIdle /\ MergeIdle

\* '(' | '{' | '[' => stack.push(c)
ValidPush ==
    /\ iv_pc = "loop" /\ pos < Len(s)
    /\ CharAt(pos) \in Openers
    /\ stack' = Append(stack, CharAt(pos))
    /\ pos' = pos + 1
    /\ UNCHANGED <<s, iv_pc, iv_result>>
    /\ UNCHANGED <<ts_vars, m_vars>>

\* a closing arm whose pop gives the expected opener
ValidClose ==
    /\ iv_pc = "loop" /\ pos < Len(s)
    /\ CharAt(pos) \in Closers
    /\ ~PopMismatch(stack, CharAt(pos))
    /\ stack' = Pop(stack)
    /\ pos' = pos + 1
    /\ UNCHANGED <<s, iv_pc, iv_result>>
    /\ UNCHANGED <<ts_vars, m_vars>>

\* a closing arm whose pop gives None or another opener: return false
ValidMismatch ==
    /\ iv_pc = "loop" /\ pos < Len(s)
    /\ CharAt(pos) \in Closers
    /\ PopMismatch(stack, CharAt(pos))
    /\ stack' = Pop(stack)
    /\ iv_result' = FALSE
    /\ iv_pc' = "return_false"
    /\ UNCHANGED <<s, pos>>
    /\ UNCHANGED <<ts_vars, m_vars>>

\* _ => {}
ValidSkip ==
    /\ iv_pc = "loop" /\ pos < Len(s)
    /\ CharAt(pos) \notin (Openers \cup Closers)
    /\ pos' = pos + 1
    /\ UNCHANGED <<s, stack, iv_pc, iv_result>>
    /\ UNCHANGED <<ts_vars, m_vars>>

\* stack.is_empty() after the loop
ValidEnd ==
    /\ iv_pc = "loop" /\ pos = Len(s)
    /\ iv_result' = FinalResult(stack)
    /\ iv_pc' = "return"
    /\ UNCHANGED <<s, pos, stack>>
    /\ UNCHANGED <<ts_vars, m_vars>>

ValidNext == ValidPush \/ ValidClose \/ ValidMismatch \/ ValidSkip \/ ValidEnd

SpecValid == ValidInit /\ [][ValidNext]_vars

\* Well-formed nested bracket sequences, by the grammar
\*    W ::= empty | o W c W      (o, c a matching opener and closer)
MatchingPairs == {<<"(", ")">>, <<"{", "}">>, <<"[", "]">>}

RECURSIVE WellFormed(_)
WellFormed(w) ==
    \/ w = <<>>
    \/ \E k \in 2..Len(w) :
        /\ <<w[1], w[k]>> \in MatchingPairs
        /\ WellFormed(SubSeq(w, 2, k - 1))
        /\ WellFormed(SubSeq(w, k + 1, Len(w)))

IsBracket(c) == c \in Openers \cup Closers
BracketsOnly(w) == SelectSeq(w, IsBracket)

\* C4: is_valid(s) is true iff the bracket-only subsequence of s is a
\* well-formed nested bracket sequence; other characters do not change the
\* result and the empty string is valid.
C4_ValidIffWellFormed ==
    (iv_pc \in {"return", "return_false"}) =>
        /\ iv_result = WellFormed(BracketsOnly(s))
        /\ (s = <<>> => iv_result = TRUE)

\* a valid string with a non-bracket character inside nested brackets
C4_Witness ==
    /\ iv_pc = "return" /\ iv_result = TRUE
    /\ \E k \in 2..Len(s) : s[k] = "a" /\ s[k - 1] \in Openers
    /\ Len(BracketsOnly(s)) >= 2

\* The opener at position k of p has no closer after it in p that matches it
\* around a well-formed segment
IsUnmatched(p, k) ==
    /\ p[k] \in Openers
    /\ ~(\E m \in (k + 1)..Len(p) :
            /\ <<p[k], p[m]>> \in MatchingPairs
            /\ WellFormed(BracketsOnly(SubSeq(p, k + 1, m - 1))))

RECURSIVE UnmatchedFrom(_, _)
UnmatchedFrom(p, k) ==
    IF k > Len(p) THEN <<>>
    ELSE (IF IsUnmatched(p, k) THEN <<p[k]>> ELSE <<>>) \o UnmatchedFrom(p, k + 1)

\* the unmatched openers of p, in order of opening
Unmatched(p) == UnmatchedFrom(p, 1)

\* s[k] (1-based) is a closer that finds no unmatched opener before it, or a
\* most recent one of another type
BadCloser(k) ==
    /\ s[k] \in Closers
    /\ LET u == Unmatched(SubSeq(s, 1, k - 1)) IN
        u = <<>> \/ <<u[Len(u)], s[k]>> \notin MatchingPairs

\* C10: while is_valid has not returned false the stack holds only openers
\* and is the sequence of unmatched openers of the consumed prefix; false is
\* returned at the first closer that finds the stack empty or topped by
\* another opener, whatever follows.
C10_StackInvariant ==
    /\ (iv_pc \in {"loop", "return"}) =>
        /\ \A k \in 1..Len(stack) : stack[k] \in Openers
        /\ stack = Unmatched(SubSeq(s, 1, pos))
        /\ \A k \in 1..pos : ~BadCloser(k)
    /\ (iv_pc = "return_false") =>
        /\ pos < Len(s)
        /\ BadCloser(pos + 1)
        /\ \A k \in 1..pos : ~BadCloser(k)
        /\ iv_result = FALSE
    /\ (iv_pc = "return" /\ iv_result = TRUE) => \A k \in 1..Len(s) : ~BadCloser(k)

\* false returned at a closer of the wrong type with characters still unread
C10_Witness ==
    /\ iv_pc = "return_false"
    /\ pos + 1 < Len(s)
    /\ Unmatched(SubSeq(s, 1, pos)) # <<>>

\* ========================================================================
\* merge_two_lists
\* ========================================================================
\* Nodes are 1..(|A| + |B|); 0 is None. val[n] is ListNode.val and next[n] is
\* ListNode.next. listA and listB record the two input chains as sequences
\* of nodes.
NonDecreasing(v) == \A k \in 1..(Len(v) - 1) : v[k] <= v[k + 1]
SortedVals == {v \in SeqUpTo(1..MaxVal, MaxChain) : NonDecreasing(v)}

\* The links of the two input chains a and b laid out one after the other
InitNext(a, b) ==
    [n \in 1..(a + b) |-> IF n = a \/ n = a + b THEN 0 ELSE n + 1]

\* A comparison that also takes the first list's node on a tie
TakesFirstOnTie(a, b) == val[a] <= val[b]

\* if l1.val < l2.val
TakesFirst(a, b) == val[a] < val[b]

\* A take() that skips the successor
TakeSkip(n) == IF next[n] = 0 THEN 0 ELSE next[next[n]]

\* l.next.take(): the successor handed to the recursive call
Take(n) == next[n]

\* A relink that leaves the detached node without a successor
RelinkNone(n, r) == next

\* l.next = <result of the recursive call>
Relink(n, r) == [next EXCEPT ![n] = r]

\* A first arm that hands back the first (empty) list
FirstEmptyWrong(a, b) == a

\* (None, _) => list2
FirstEmptyResult(a, b) == b

MergeInit ==
    /\ \E va \in SortedVals, vb \in SortedVals :
        /\ listA = [k \in 1..Len(va) |-> k]
        /\ listB = [k \in 1..Len(vb) |-> Len(va) + k]
        /\ val = va \o vb
        /\ next = InitNext(Len(va), Len(vb))
        /\ l1 = IF Len(va) = 0 THEN 0 ELSE 1
        /\ l2 = IF Len(vb) = 0 THEN 0 ELSE Len(va) + 1
    /\ frames = <<>>
    /\ ret = 0
    /\ m_pc = "call"
    /\ TwoSumIdle /\ ValidIdle

\* (None, _) => list2
MergeFirstEmpty ==
    /\ m_pc = "call" /\ l1 = 0
    /\ ret' = FirstEmptyResult(l1, l2)
    /\ m_pc' = "ret"
    /\ UNCHANGED <<listA, listB, val, next, l1, l2, frames>>
    /\ UNCHANGED <<ts_vars, iv_vars>>

\* (_, None) => list1
MergeSecondEmpty ==
    /\ m_pc = "call" /\ l1 # 0 /\ l2 = 0
    /\ ret' = l1
    /\ m_pc' = "ret"
    /\ UNCHANGED <<listA, listB, val, next, l1, l2, frames>>
    /\ UNCHANGED <<ts_vars, iv_vars>>

\* l1.val < l2.val: detach l1 and call merge_two_lists(next, Some(l2))
MergeTakeFirst ==
    /\ m_pc = "call" /\ l1 # 0 /\ l2 # 0
    /\ TakesFirst(l1, l2)
    /\ l1' = Take(l1)
    /\ next' = [next EXCEPT ![l1] = 0]
    /\ frames' = Append(frames, l1)
    /\ UNCHANGED <<listA, listB, val, l2, ret, m_pc>>
    /\ UNCHANGED <<ts_vars, iv_vars>>

\* else: detach l2 and call merge_two_lists(Some(l1), next)
MergeTakeSecond ==
    /\ m_pc = "call" /\ l1 # 0 /\ l2 # 0
    /\ ~TakesFirst(l1, l2)
    /\ l2' = Take(l2)
    /\ next' = [next EXCEPT ![l2] = 0]
    /\ frames' = Append(frames, l2)
    /\ UNCHANGED <<listA, listB, val, l1, ret, m_pc>>
    /\ UNCHANGED <<ts_vars, iv_vars>>

\* the recursive call returns: l.next = <its result>; Some(l)
MergeReturn ==
    /\ m_pc = "ret" /\ frames # <<>>
    /\ LET n == frames[Len(frames)] IN
        /\ next' = Relink(n, ret)
        /\ ret' = n
    /\ frames' = SubSeq(frames, 1, Len(frames) - 1)
    /\ UNCHANGED <<listA, listB, val, l1, l2, m_pc>>
    /\ UNCHANGED <<ts_vars, iv_vars>>

MergeNext ==
    \/ MergeFirstEmpty \/ MergeSecondEmpty
    \/ MergeTakeFirst \/ MergeTakeSecond
    \/ MergeReturn

SpecMerge == MergeInit /\ [][MergeNext]_vars

\* the outermost call has returned: ret is the merged chain
MergeDone == m_pc = "ret" /\ frames = <<>>

RECURSIVE ChainFrom(_, _)
ChainFrom(h, fuel) ==
    IF h = 0 \/ fuel = 0 THEN <<>>
    ELSE <<h>> \o ChainFrom(next[h], fuel - 1)

\* the nodes of the chain headed by h, in order
Chain(h) == ChainFrom(h, Len(listA) + Len(listB) + 1)

Nodes == 1..(Len(listA) + Len(listB))
Occurrences(out, n) == Cardinality({k \in 1..Len(out) : out[k] = n})
Before(out, x, y) ==
    \E p \in 1..Len(out) : \E q \in 1..Len(out) : p < q /\ out[p] = x /\ out[q] = y

\* C5: the merged chain is non-decreasing, has |A| + |B| nodes and holds
\* every node of A and of B exactly once; no node is created or dropped.
C5_SortedPermutation ==
    MergeDone =>
        LET out == Chain(ret) IN
        /\ Len(out) = Len(listA) + Len(listB)
        /\ \A k \in 1..(Len(out) - 1) : val[out[k]] <= val[out[k + 1]]
        /\ \A n \in Nodes : Occurrences(out, n) = 1
        /\ \A k \in 1..Len(out) : out[k] \in Nodes
        /\ DOMAIN val = Nodes /\ DOMAIN next = Nodes

\* both inputs have at least two nodes and their values interleave
C5_Witness ==
    /\ MergeDone
    /\ Len(listA) >= 2 /\ Len(listB) >= 2
    /\ \E k \in 1..(Len(Chain(ret)) - 2) :
        /\ Chain(ret)[k] > Len(listA)
        /\ Chain(ret)[k + 1] <= Len(listA)
        /\ Chain(ret)[k + 2] > Len(listA)

\* C6 (as stated): of a node of A and a node of B with equal values, the
\* node of A comes first in the merged chain.
C6_FirstInputFirst ==
    MergeDone =>
        \A a \in 1..Len(listA) : \A b \in 1..Len(listB) :
            val[listA[a]] = val[listB[b]] => Before(Chain(ret), listA[a], listB[b])

\* C6 (amended): of a node of A and a node of B with equal values, the node
\* of B comes first in the merged chain.
C6_SecondInputFirst ==
    MergeDone =>
        \A a \in 1..Len(listA) : \A b \in 1..Len(listB) :
            val[listA[a]] = val[listB[b]] => Before(Chain(ret), listB[b], listA[a])

\* A and B share a value that each holds twice
C6_Witness ==
    /\ MergeDone
    /\ Len(listA) >= 2 /\ Len(listB) >= 2
    /\ val[listA[1]] = val[listA[2]]
    /\ val[listB[1]] = val[listB[2]]
    /\ val[listA[1]] = val[listB[1]]

\* C7: nodes of the same input keep their relative order: each input chain
\* is a subsequence by node identity of the merged chain.
C7_OrderPreserved ==
    MergeDone =>
        /\ \A x \in 1..Len(listA) : \A y \in 1..Len(listA) :
            x < y => Before(Chain(ret), listA[x], listA[y])
        /\ \A x \in 1..Len(listB) : \A y \in 1..Len(listB) :
            x < y => Before(Chain(ret), listB[x], listB[y])

\* an input with two equal values, merged with a non-empty other input
C7_Witness ==
    /\ MergeDone
    /\ Len(listA) >= 2 /\ Len(listB) >= 1
    /\ \E x \in 1..(Len(listA) - 1) : val[listA[x]] = val[listA[x + 1]]
    /\ Chain(ret)[1] = listB[1]

\* C9: with the first chain empty the result is the second chain, with the
\* second chain empty it is the first, same nodes in the same order and
\* every successor link unchanged; both empty give the empty chain.
C9_BaseCase ==
    MergeDone =>
        /\ (listA = <<>>) =>
            /\ ret = (IF listB = <<>> THEN 0 ELSE listB[1])
            /\ Chain(ret) = listB
            /\ next = InitNext(0, Len(listB))
        /\ (listB = <<>>) =>
            /\ ret = (IF listA = <<>> THEN 0 ELSE listA[1])
            /\ Chain(ret) = listA
            /\ next = InitNext(Len(listA), 0)

\* the first chain is empty and the second has several nodes
C9_Witness ==
    /\ MergeDone
    /\ listA = <<>> /\ Len(listB) >= 2
    /\ ret = listB[1]

====
